---- MODULE Spec2Model ----
(***************************************************************************)
(* A model of ytdl2rss (src/src/ytdl2rss.py): the conversion of            *)
(* youtube-dl info JSON documents into a podcast RSS document.             *)
(*                                                                         *)
(* Text is modelled as a sequence of chunks.  A chunk is either one of the *)
(* characters XML treats specially (& < > " ' and the line break) or an    *)
(* opaque run of ordinary characters, so 'a&b' is <<"a", "&", "b">> and    *)
(* the empty string is <<>>.  Python's None and a missing dictionary key   *)
(* are the two sentinels None and Missing.                                 *)
(***************************************************************************)
EXTENDS Integers, Sequences, FiniteSets, TLC

VARIABLES
    call,   \* harness of the library functions: "pending", then "returned"
    arg,    \* the argument a function is applied to
    res,    \* what it returned
    pc,             \* where main is
    args,           \* main: the parsed command line
    docs,           \* the JSON documents read so far, in the order of the locations
    info_count,     \* _load_info: its locals
    loaded_entries, \* _load_info: the entries of all documents so far
    last_playlist,
    loaded,         \* what _load_info returned
    out,            \* what the writer was given, in order
    wstate,         \* the output destination: "unopened", "open", "closed"
    exc,            \* the exception in flight
    rc              \* how main was left

hvars == <<call, arg, res>>

mvars == <<pc, args, docs, info_count, loaded_entries, last_playlist, loaded, out, wstate, exc,
           rc>>

vars == <<call, arg, res, pc, args, docs, info_count, loaded_entries, last_playlist, loaded,
          out, wstate, exc, rc>>

----------------------------------------------------------------------------
(* Python values *)

None == <<"(None)">>

Missing == <<"(Missing)">>

\* dict.get(key): a missing key reads as None
Get(v) == IF v = Missing THEN None ELSE v

\* truth value of a str-or-None: None and '' are false
Truthy(v) == v # None /\ v # Missing /\ v # <<>>

\* integer fields: None and a missing key
NoneInt == 0 - 1

MissingInt == 0 - 2

GetInt(n) == IF n = MissingInt THEN NoneInt ELSE n

\* what a function returns, or the exception it raises
Ok(v) == [exc |-> "none", v |-> v]

Raise(e) == [exc |-> e, v |-> None]

----------------------------------------------------------------------------
(* get_entry_media_type *)

M4aGroup == {<<"f4a">>, <<"f4b">>, <<"f4p">>, <<"m4a">>, <<"m4b">>, <<"m4p">>, <<"m4r">>}

NoCodecsParam == {<<"flv">>, <<"gif">>, <<"mp3">>}

\* lines 83-88: a codec of 'none' reads as None
NormCodec(c) == IF Get(c) = <<"none">> THEN None ELSE Get(c)

FamilyLegacy(acodec, vcodec) == IF ~Truthy(vcodec) THEN <<"audio/">> ELSE <<"video/">>

\* line 90
Family(acodec, vcodec) ==
    IF Truthy(acodec) /\ ~Truthy(vcodec) THEN <<"audio/">> ELSE <<"video/">>

\* lines 91-151: the media type before the codecs parameter
BaseType(ext, acodec, vcodec) ==
    LET media_type == Family(acodec, vcodec) IN
    CASE ext = <<"3g2">> -> media_type \o <<"3gpp2">>
      [] ext = <<"3gp">> -> media_type \o <<"3gpp">>
      [] ext = <<"avi">> -> <<"video/vnd.avi">>
      [] ext \in M4aGroup ->
            IF ~Truthy(acodec) /\ ~Truthy(vcodec)
            THEN <<"audio/mp4">>
            ELSE media_type \o <<"mp4">>
      [] ext \in {<<"f4v">>, <<"m4v">>} -> media_type \o <<"mp4">>
      [] ext = <<"flv">> -> <<"video/x-flv">>
      [] ext = <<"gif">> -> <<"image/gif">>
      [] ext \in {<<"mk3d">>, <<"mks">>, <<"mkv">>} -> media_type \o <<"x-matroska">>
      [] ext = <<"mka">> ->
            (IF ~Truthy(acodec) /\ ~Truthy(vcodec) THEN <<"audio/">> ELSE media_type)
                \o <<"x-matroska">>
      [] ext = <<"mp3">> -> <<"audio/mpeg">>
      [] ext = <<"ogg">> ->
            (IF ~Truthy(vcodec) THEN <<"audio/">> ELSE media_type) \o <<"ogg">>
      [] ext = <<"opus">> -> <<"audio/ogg">>
      [] ext = <<"ogv">> -> media_type \o <<"ogg">>
      [] ext = <<"wav">> -> <<"audio/vnd.wave">>
      [] OTHER -> media_type \o ext

\* lines 153-163: the codecs parameter of RFC 6381
CodecsParam(ext, acodec, vcodec) ==
    IF (Truthy(acodec) \/ Truthy(vcodec)) /\ ext \notin NoCodecsParam
    THEN <<"; codecs=">> \o
         (IF Truthy(acodec) /\ Truthy(vcodec)
          THEN <<"\"">> \o vcodec \o <<", ">> \o acodec \o <<"\"">>
          ELSE IF Truthy(acodec) THEN acodec ELSE vcodec)
    ELSE <<>>

get_entry_media_type(entry) ==
    IF entry.ext = Missing THEN Raise("KeyError")
    ELSE IF entry.ext = None THEN Raise("TypeError")
    ELSE
    LET ext0   == entry.ext
        acodec0 == NormCodec(entry.acodec)
        vcodec  == NormCodec(entry.vcodec)
        \* lines 142-144: opus is Opus-in-Ogg
        ext    == IF ext0 = <<"opus">> THEN <<"ogg">> ELSE ext0
        acodec == IF ext0 = <<"opus">> /\ acodec0 = None THEN <<"opus">> ELSE acodec0
    IN  Ok(BaseType(ext0, acodec0, vcodec) \o CodecsParam(ext, acodec, vcodec))

----------------------------------------------------------------------------
(* xml.sax.saxutils.escape and quoteattr, imported at line 15 *)

\* str.replace(c, rep) for a one-character c
RECURSIVE Replace(_, _, _)
Replace(s, c, rep) ==
    IF s = <<>> THEN <<>>
    ELSE (IF Head(s) = c THEN rep ELSE <<Head(s)>>) \o Replace(Tail(s), c, rep)

\* escape(data): & first, then > and <
escape(data) ==
    Replace(Replace(Replace(data, "&", <<"&", "amp;">>), ">", <<"&", "gt;">>),
            "<", <<"&", "lt;">>)

Has(s, c) == \E i \in 1..Len(s) : s[i] = c

\* quoteattr(data): escape, plus the line break as a character reference, then
\* the quote character that needs the least escaping
quoteattr(data) ==
    LET d == Replace(escape(data), "\n", <<"&", "#10;">>) IN
    IF Has(d, "\"")
    THEN IF Has(d, "'")
         THEN <<"\"">> \o Replace(d, "\"", <<"&", "quot;">>) \o <<"\"">>
         ELSE <<"'">> \o d \o <<"'">>
    ELSE <<"\"">> \o d \o <<"\"">>

\* str(n) of an integer
str(n) == <<ToString(n)>>

----------------------------------------------------------------------------
(* _ymd_to_rfc2822, _resolve_path, _resolve_url *)

\* _ymd_to_rfc2822 on the dates of the model; any other text is not a date
\* and time.strptime raises ValueError
ymd_to_rfc2822(datestr) ==
    CASE datestr = <<"20200101">> -> Ok(<<"Wed, 01 Jan 2020 00:00:00 -0000">>)
      [] datestr = <<"20200615">> -> Ok(<<"Mon, 15 Jun 2020 00:00:00 -0000">>)
      [] datestr = <<"20211231">> -> Ok(<<"Fri, 31 Dec 2021 00:00:00 -0000">>)
      [] OTHER -> Raise("ValueError")

\* A path or URL is a text whose "/" chunks separate its components.
RECURSIVE Components(_)
Components(p) ==
    IF p = <<>> THEN <<>>
    ELSE IF Head(p) = "/" THEN Components(Tail(p))
    ELSE LET rest == Components(Tail(p)) IN
         IF Len(p) > 1 /\ p[2] # "/"
         THEN <<(<<Head(p)>> \o Head(rest))>> \o Tail(rest)
         ELSE <<(<<Head(p)>>)>> \o rest

RECURSIVE JoinPath(_)
JoinPath(cs) ==
    IF cs = <<>> THEN <<>>
    ELSE IF Len(cs) = 1 THEN Head(cs)
    ELSE Head(cs) \o <<"/">> \o JoinPath(Tail(cs))

\* os.path.dirname of a relative path, as components
DirOf(p) == LET cs == Components(p) IN IF cs = <<>> THEN <<>> ELSE SubSeq(cs, 1, Len(cs) - 1)

RECURSIVE CommonPrefix(_, _)
CommonPrefix(a, b) ==
    IF a = <<>> \/ b = <<>> \/ Head(a) # Head(b) THEN 0
    ELSE 1 + CommonPrefix(Tail(a), Tail(b))

\* os.path.relpath(path, start) of normalized relative paths
RelPath(path, start) ==
    LET i == CommonPrefix(path, start) IN
    [k \in 1..(Len(start) - i) |-> <<"..">>] \o SubSeq(path, i + 1, Len(path))

\* urllib.parse.quote of one chunk: the reserved characters are percent-encoded
Quote(c) ==
    CASE c = "&" -> "%26"
      [] c = "<" -> "%3C"
      [] c = ">" -> "%3E"
      [] c = "\"" -> "%22"
      [] c = "'" -> "%27"
      [] c = "\n" -> "%0A"
      [] OTHER -> c

Unquote(c) ==
    CASE c = "%26" -> "&"
      [] c = "%3C" -> "<"
      [] c = "%3E" -> ">"
      [] c = "%22" -> "\""
      [] c = "%27" -> "'"
      [] c = "%0A" -> "\n"
      [] OTHER -> c

pathname2url(p) == [i \in 1..Len(p) |-> Quote(p[i])]

url2pathname(u) == [i \in 1..Len(u) |-> Unquote(u[i])]

\* removal of the ".." segments of RFC 3986 5.2.4
RECURSIVE RemoveDots(_, _)
RemoveDots(done, todo) ==
    IF todo = <<>> THEN done
    ELSE IF Head(todo) = <<"..">>
         THEN RemoveDots(IF done = <<>> THEN <<>> ELSE SubSeq(done, 1, Len(done) - 1),
                         Tail(todo))
         ELSE RemoveDots(Append(done, Head(todo)), Tail(todo))

\* urljoin(base, url) for a relative-path url.  An absolute base is its
\* scheme, its authority and its path: <<"http:", "//h", "/", "pod", "/">>.
urljoin(base, url) ==
    IF ~Truthy(base) THEN url
    ELSE LET bpath == SubSeq(base, 3, Len(base))
             bdirs == IF bpath # <<>> /\ bpath[Len(bpath)] = "/"
                      THEN Components(bpath) ELSE DirOf(bpath)
             merged == RemoveDots(<<>>, bdirs \o Components(url))
         IN  <<base[1], base[2], "/">> \o JoinPath(merged)

\* lines 42-51
resolve_path(path, src_path, dst_path, dst_base) ==
    IF ~Truthy(path) THEN Get(path)
    ELSE LET cur_path == DirOf(src_path) \o Components(path)
             rel_path == JoinPath(RelPath(cur_path, DirOf(dst_path)))
         IN  urljoin(dst_base, pathname2url(rel_path))

Schemes == {"http:", "https:"}

Authorities == {"//h", "//cdn"}

\* lines 54-67
resolve_url(url, src_path, dst_path, dst_base) ==
    IF url # <<>> /\ Head(url) \in Schemes THEN url
    ELSE IF url # <<>> /\ Head(url) \in Authorities
         THEN (IF ~Truthy(dst_base) THEN url ELSE <<Head(dst_base)>> \o url)
    ELSE resolve_path(url2pathname(url), src_path, dst_path, dst_base)

----------------------------------------------------------------------------
(* What is written to the RSS stream.  One token stands for the write calls *)
(* of one piece of markup: `ind` is the indent written before it and `eol` *)
(* the line end written after it (both '' when indent is None); `k` is     *)
(* "open" and "close" for a tag alone on its line, "text" for an element   *)
(* with escaped content v, "raw" for an element whose content v is written *)
(* as it is, "start", "attr" and "end" for the parts of an empty element   *)
(* with attributes (`at` names the attribute, v is its quoted value), and  *)
(* "cut" for an element whose writing an exception interrupted.            *)

Tok(ind, el, at, k, v, eol) ==
    [ind |-> ind, el |-> el, at |-> at, k |-> k, v |-> v, eol |-> eol]

\* the writes made so far, and the exception that ended them
Wr(toks) == [toks |-> toks, exc |-> "none"]

Fail(toks, e) == [toks |-> toks, exc |-> e]

Then(a, b) == IF a.exc # "none" THEN a ELSE [toks |-> a.toks \o b.toks, exc |-> b.exc]

IndOnce(indent, n) == IF indent = None \/ n = 0 THEN <<>> ELSE indent

\* lines 170-177, 292-301: indent * n and eol
Ind(indent, n) == IF indent = None THEN <<>> ELSE [i \in 1..(n * Len(indent)) |-> indent[((i - 1) % Len(indent)) + 1]]

Eol(indent) == IF indent = None THEN <<>> ELSE <<"\n">>

Cut(ind, el, e) == Fail(<<Tok(ind, el, "", "cut", <<>>, <<>>)>>, e)

----------------------------------------------------------------------------
(* entry_to_rss, lines 168-274 *)

\* lines 185-197
ItemGuid(entry, indent) ==
    LET webpage_url == Get(entry.webpage_url) IN
    IF Truthy(webpage_url)
    THEN Wr(<<Tok(Ind(indent, 3), "guid", "isPermaLink", "text", escape(webpage_url), Eol(indent))>>)
    ELSE IF entry.id = Missing THEN Cut(Ind(indent, 3), "guid", "KeyError")
    ELSE IF entry.id = None THEN Cut(Ind(indent, 3), "guid", "AttributeError")
    ELSE Wr(<<Tok(Ind(indent, 3), "guid", "", "text", escape(entry.id), Eol(indent))>>)

ItemTextUnescaped(entry, indent, el, v) ==
    IF Get(v) # None
    THEN Wr(<<Tok(Ind(indent, 3), el, "", "text", v, Eol(indent))>>)
    ELSE Wr(<<>>)

\* lines 199-205 and 264-270: title and description
ItemText(entry, indent, el, v) ==
    IF Get(v) # None
    THEN Wr(<<Tok(Ind(indent, 3), el, "", "text", escape(v), Eol(indent))>>)
    ELSE Wr(<<>>)

\* lines 207-213
ItemPubDate(entry, indent) ==
    LET upload_date == Get(entry.upload_date) IN
    IF upload_date # None
    THEN LET d == ymd_to_rfc2822(upload_date) IN
         IF d.exc # "none" THEN Cut(Ind(indent, 3), "pubDate", d.exc)
         ELSE Wr(<<Tok(Ind(indent, 3), "pubDate", "", "raw", d.v, Eol(indent))>>)
    ELSE Wr(<<>>)

\* lines 215-230
ItemEnclosure(entry, rss_name, base, indent) ==
    IF entry.filename = Missing THEN Fail(<<>>, "KeyError")
    ELSE
    LET fileurl == resolve_path(entry.filename, entry.json_path, rss_name, base)
        filesize == GetInt(entry.filesize)
        media_type == get_entry_media_type(entry)
        start == <<Tok(Ind(indent, 3), "enclosure", "", "start", <<>>, <<>>),
                   Tok(<<>>, "enclosure", "type", "attr", quoteattr(media_type.v), <<>>)>>
        length == IF filesize # NoneInt
                  THEN <<Tok(<<>>, "enclosure", "length", "attr", quoteattr(str(filesize)), <<>>)>>
                  ELSE <<>>
    IN  IF media_type.exc # "none" THEN Fail(<<>>, media_type.exc)
        ELSE IF fileurl = None
             THEN Fail(start \o length \o <<Tok(<<>>, "enclosure", "url", "cut", <<>>, <<>>)>>,
                       "AttributeError")
        ELSE Wr(start \o length \o
                <<Tok(<<>>, "enclosure", "url", "attr", quoteattr(fileurl), <<>>),
                  Tok(<<>>, "enclosure", "", "end", <<>>, Eol(indent))>>)

\* lines 232-239
ItemImage(entry, rss_name, base, indent) ==
    LET thumbnail == Get(entry.thumbnail) IN
    IF thumbnail # None
    THEN Wr(<<Tok(Ind(indent, 3), "itunes:image", "", "start", <<>>, <<>>),
              Tok(<<>>, "itunes:image", "href", "attr",
                  quoteattr(resolve_url(thumbnail, entry.json_path, rss_name, base)), <<>>),
              Tok(<<>>, "itunes:image", "", "end", <<>>, Eol(indent))>>)
    ELSE Wr(<<>>)

\* lines 241-247
ItemDuration(entry, indent) ==
    IF entry.duration = MissingInt THEN Fail(<<>>, "KeyError")
    ELSE IF entry.duration # NoneInt
    THEN Wr(<<Tok(Ind(indent, 3), "itunes:duration", "", "raw", str(entry.duration), Eol(indent))>>)
    ELSE Wr(<<>>)

ItemExplicitTruthy(entry, indent) ==
    LET age_limit == GetInt(entry.age_limit) IN
    IF age_limit # NoneInt /\ age_limit # 0
    THEN Wr(<<Tok(Ind(indent, 3), "itunes:explicit", "", "raw",
                  IF age_limit > 0 THEN <<"yes">> ELSE <<"clean">>, Eol(indent))>>)
    ELSE Wr(<<>>)

\* lines 249-258
ItemExplicit(entry, indent) ==
    LET age_limit == GetInt(entry.age_limit) IN
    IF age_limit # NoneInt
    THEN Wr(<<Tok(Ind(indent, 3), "itunes:explicit", "", "raw",
                  IF age_limit > 0 THEN <<"yes">> ELSE <<"clean">>, Eol(indent))>>)
    ELSE Wr(<<>>)

entry_to_rss(entry, rss_name, base, indent) ==
    IF entry.json_path = Missing THEN Fail(<<>>, "KeyError")
    ELSE
    Then(Wr(<<Tok(Ind(indent, 2), "item", "", "open", <<>>, Eol(indent))>>),
    Then(ItemGuid(entry, indent),
    Then(ItemText(entry, indent, "title", entry.title),
    Then(ItemPubDate(entry, indent),
    Then(ItemEnclosure(entry, rss_name, base, indent),
    Then(ItemImage(entry, rss_name, base, indent),
    Then(ItemDuration(entry, indent),
    Then(ItemExplicit(entry, indent),
    Then(ItemText(entry, indent, "description", entry.description),
         Wr(<<Tok(Ind(indent, 2), "item", "", "close", <<>>, Eol(indent))>>))))))))))

----------------------------------------------------------------------------
(* playlist_to_rss, lines 277-438 *)

\* a null element of an 'entries' list
NullEntry == [null |-> TRUE]

\* the YYYYMMDD texts of the model in the order str comparison gives them
DateRank(d) ==
    CASE d = <<"20200101">> -> 1
      [] d = <<"20200615">> -> 2
      [] d = <<"20211231">> -> 3
      [] OTHER -> 0

\* max() of a list of str-or-None under Python 3: an empty list raises
\* ValueError, and comparing None with anything raises TypeError
Max(xs) ==
    IF xs = <<>> THEN Raise("ValueError")
    ELSE IF Len(xs) > 1 /\ \E i \in 1..Len(xs) : xs[i] = None THEN Raise("TypeError")
    ELSE Ok(CHOOSE x \in {xs[i] : i \in 1..Len(xs)} :
                \A j \in 1..Len(xs) : DateRank(xs[j]) <= DateRank(x))

MaxInt(ns) == CHOOSE n \in {ns[i] : i \in 1..Len(ns)} : \A j \in 1..Len(ns) : ns[j] <= n

ChannelText(indent, el, v) ==
    IF Get(v) # None
    THEN Wr(<<Tok(Ind(indent, 2), el, "", "text", escape(v), Eol(indent))>>)
    ELSE Wr(<<>>)

\* lines 349-359
ChannelPubDate(playlist, indent) ==
    LET given == Get(playlist.upload_date)
        dates == SelectSeq(playlist.entries, LAMBDA e : e # NullEntry)
        found == IF given # None THEN Ok(given)
                 ELSE Max([i \in 1..Len(dates) |-> Get(dates[i].upload_date)])
    IN  IF found.exc # "none" THEN Fail(<<>>, found.exc)
        ELSE IF found.v = None THEN Wr(<<>>)
        ELSE LET d == ymd_to_rfc2822(found.v) IN
             IF d.exc # "none" THEN Cut(Ind(indent, 2), "pubDate", d.exc)
             ELSE Wr(<<Tok(Ind(indent, 2), "pubDate", "", "raw", d.v, Eol(indent))>>)

\* lines 363-403
ChannelImage(playlist, rss_name, base, indent) ==
    IF Get(playlist.thumbnail) = None THEN Wr(<<>>)
    ELSE
    LET thumbnail == resolve_url(playlist.thumbnail, Get(playlist.json_path), rss_name, base)
        title == Get(playlist.title)
        webpage_url == Get(playlist.webpage_url)
    IN  Wr(<<Tok(Ind(indent, 2), "image", "", "open", <<>>, Eol(indent)),
             Tok(Ind(indent, 3), "url", "", "text", escape(thumbnail), Eol(indent))>>
           \o (IF title # None
               THEN <<Tok(Ind(indent, 3), "title", "", "text", escape(title), Eol(indent))>>
               ELSE <<>>)
           \o (IF webpage_url # None
               THEN <<Tok(Ind(indent, 3), "link", "", "text", escape(webpage_url), Eol(indent))>>
               ELSE <<>>)
           \o <<Tok(Ind(indent, 2), "image", "", "close", <<>>, Eol(indent)),
                Tok(Ind(indent, 2), "itunes:image", "", "start", <<>>, <<>>),
                Tok(<<>>, "itunes:image", "href", "attr", quoteattr(thumbnail), <<>>),
                Tok(<<>>, "itunes:image", "", "end", <<>>, Eol(indent))>>)

\* lines 405-414
ChannelExplicit(playlist, indent) ==
    IF \E i \in 1..Len(playlist.entries) : playlist.entries[i] = NullEntry
    THEN Fail(<<>>, "AttributeError")
    ELSE
    LET age_limits == [i \in 1..Len(playlist.entries) |-> GetInt(playlist.entries[i].age_limit)] IN
    IF age_limits # <<>> /\ ~(\E i \in 1..Len(age_limits) : age_limits[i] = NoneInt)
    THEN Wr(<<Tok(Ind(indent, 2), "itunes:explicit", "", "raw",
                  IF MaxInt(age_limits) > 0 THEN <<"yes">> ELSE <<"clean">>, Eol(indent))>>)
    ELSE Wr(<<>>)

\* lines 418-423
ChannelSelfLink(base, indent) ==
    IF Truthy(base)
    THEN Wr(<<Tok(Ind(indent, 2), "atom:link", "", "start", <<>>, <<>>),
              Tok(<<>>, "atom:link", "href", "attr", quoteattr(base), <<>>),
              Tok(<<>>, "atom:link", "", "end", <<>>, Eol(indent))>>)
    ELSE Wr(<<>>)

\* lines 431-432
RECURSIVE ItemsToRss(_, _, _, _)
ItemsToRss(entries, rss_name, base, indent) ==
    IF entries = <<>> THEN Wr(<<>>)
    ELSE IF Head(entries) = NullEntry THEN Fail(<<>>, "TypeError")
    ELSE Then(entry_to_rss(Head(entries), rss_name, base, indent),
              ItemsToRss(Tail(entries), rss_name, base, indent))

playlist_to_rss(playlist, rss_name, base, indent) ==
    Then(Wr(<<Tok(<<>>, "rss", "", "open", <<>>, Eol(indent)),
              Tok(Ind(indent, 1), "channel", "", "open", <<>>, Eol(indent))>>),
    Then(ChannelText(indent, "title", playlist.title),
    Then(ChannelText(indent, "description", playlist.description),
    Then(ChannelText(indent, "itunes:author", playlist.uploader),
    Then(ChannelText(indent, "link", playlist.webpage_url),
    Then(ChannelPubDate(playlist, indent),
    Then(ChannelImage(playlist, rss_name, base, indent),
    Then(ChannelExplicit(playlist, indent),
    Then(ChannelSelfLink(base, indent),
    Then(Wr(<<Tok(Ind(indent, 2), "generator", "", "text", escape(<<"ytdl2rss.py 0.1.0">>), Eol(indent))>>),
    Then(ItemsToRss(playlist.entries, rss_name, base, indent),
         Wr(<<Tok(Ind(indent, 1), "channel", "", "close", <<>>, Eol(indent)),
              Tok(<<>>, "rss", "", "close", <<>>, <<"\n">>)>>))))))))))))

----------------------------------------------------------------------------
(* entries_to_playlist, lines 457-486 *)

\* line 470: the playlist keys of an entry whose value is true
EntryPlaylist(entry) ==
    [playlist_id |-> IF Truthy(entry.playlist_id) THEN entry.playlist_id ELSE Missing,
     playlist_title |-> IF Truthy(entry.playlist_title) THEN entry.playlist_title ELSE Missing,
     playlist_uploader |->
        IF Truthy(entry.playlist_uploader) THEN entry.playlist_uploader ELSE Missing,
     playlist_uploader_id |->
        IF Truthy(entry.playlist_uploader_id) THEN entry.playlist_uploader_id ELSE Missing]

\* the empty dict, which is also how None is held: both are false at line 479
NoPlaylistKeys ==
    [playlist_id |-> Missing, playlist_title |-> Missing,
     playlist_uploader |-> Missing, playlist_uploader_id |-> Missing]

RECURSIVE CommonPlaylistNoBreak(_, _)
CommonPlaylistNoBreak(entries, entries_playlist) ==
    IF entries = <<>> THEN entries_playlist
    ELSE LET entry_playlist == EntryPlaylist(Head(entries)) IN
         IF entry_playlist = NoPlaylistKeys
         THEN CommonPlaylistNoBreak(Tail(entries), entries_playlist)
         ELSE IF entries_playlist = NoPlaylistKeys
         THEN CommonPlaylistNoBreak(Tail(entries), entry_playlist)
         ELSE IF entry_playlist # entries_playlist
         THEN CommonPlaylistNoBreak(Tail(entries), NoPlaylistKeys)
         ELSE CommonPlaylistNoBreak(Tail(entries), entries_playlist)

\* lines 468-477: the loop, from the entries left and entries_playlist so far
RECURSIVE CommonPlaylist(_, _)
CommonPlaylist(entries, entries_playlist) ==
    IF entries = <<>> THEN entries_playlist
    ELSE LET entry_playlist == EntryPlaylist(Head(entries)) IN
         IF entry_playlist = NoPlaylistKeys
         THEN CommonPlaylist(Tail(entries), entries_playlist)
         ELSE IF entries_playlist = NoPlaylistKeys
         THEN CommonPlaylist(Tail(entries), entry_playlist)
         ELSE IF entry_playlist # entries_playlist
         THEN NoPlaylistKeys
         ELSE CommonPlaylist(Tail(entries), entries_playlist)

entries_to_playlist(entries) ==
    IF \E i \in 1..Len(entries) : entries[i] = NullEntry
    THEN Raise("AttributeError")
    ELSE LET entries_playlist == CommonPlaylist(entries, NoPlaylistKeys) IN
         Ok([id |-> entries_playlist.playlist_id,
             title |-> entries_playlist.playlist_title,
             uploader |-> entries_playlist.playlist_uploader,
             uploader_id |-> entries_playlist.playlist_uploader_id,
             description |-> Missing, webpage_url |-> Missing, upload_date |-> Missing,
             thumbnail |-> Missing, json_path |-> Missing,
             entries |-> entries])

----------------------------------------------------------------------------
(* main and _load_info, lines 489-524 and 585-655 *)

NoExc == [type |-> "none", msg |-> <<>>]

NoPlaylist == [none |-> TRUE]

\* main has not been called: the state of the specifications that apply a
\* library function alone
MainIdle ==
    /\ pc = "idle"
    /\ args = [output |-> None, encoding |-> "UTF-8", indent |-> None, base |-> None,
               json_files |-> <<>>]
    /\ docs = <<>>
    /\ info_count = 0
    /\ loaded_entries = <<>>
    /\ last_playlist = NoPlaylist
    /\ loaded = NoPlaylist
    /\ out = <<>>
    /\ wstate = "unopened"
    /\ exc = NoExc
    /\ rc = "none"

\* rss.name
WriterName == IF Truthy(args.output) THEN args.output ELSE <<"<stdout>">>

\* lines 611-628: a named file is opened for writing as UTF-8; otherwise the
\* writer is sys.stdout or a codec writer around it, in args.encoding
OpenOutput ==
    /\ pc = "start"
    /\ wstate' = "open"
    /\ pc' = "declaration"
    /\ UNCHANGED <<args, docs, info_count, loaded_entries, last_playlist, loaded, out, exc, rc, hvars>>

\* line 613: io.open fails; main is left before the try statement
OpenOutputFails ==
    /\ pc = "start"
    /\ Truthy(args.output)
    /\ exc' = [type |-> "OSError", msg |-> args.output]
    /\ rc' = "exception"
    /\ pc' = "left"
    /\ UNCHANGED <<args, docs, info_count, loaded_entries, last_playlist, loaded, out, wstate, hvars>>

\* lines 631-635
WriteDeclaration ==
    /\ pc = "declaration"
    /\ out' = out \o <<Tok(<<>>, "?xml", "encoding", "attr", quoteattr(<<args.encoding>>),
                          Eol(args.indent))>>
    /\ pc' = "load"
    /\ UNCHANGED <<args, docs, info_count, loaded_entries, last_playlist, loaded, wstate, exc, rc, hvars>>

\* isinstance(value, list), lines 503-504
IsList(kind) == kind = "list"

UnrecognizedNeitherOnly(info) == ~IsList(info.entries_kind) /\ ~IsList(info.formats_kind)

\* line 505
Unrecognized(info) == IsList(info.entries_kind) = IsList(info.formats_kind)

\* lines 514-516: the tag on each entry, up to a null entry
NullAt(info_entries) == \E i \in 1..Len(info_entries) : info_entries[i] = NullEntry

Tagged(info_entries, info_path) ==
    [i \in 1..Len(info_entries) |-> [info_entries[i] EXCEPT !.json_path = info_path]]

\* lines 494-517: one turn of the loop, on the document found at the location
LoadInfo(doc) ==
    LET info_path == args.json_files[info_count + 1] IN
    /\ pc = "load"
    /\ info_count < Len(args.json_files)
    /\ info_count' = info_count + 1
    /\ docs' = Append(docs, doc)
    /\ IF doc.io = "unreadable"
       THEN /\ exc' = [type |-> "OSError", msg |-> info_path]
            /\ pc' = "except"
            /\ UNCHANGED <<loaded_entries, last_playlist>>
       ELSE IF doc.io = "malformed"
       THEN /\ exc' = [type |-> "Exception", msg |-> <<"Error loading ">> \o info_path]
            /\ pc' = "except"
            /\ UNCHANGED <<loaded_entries, last_playlist>>
       ELSE IF Unrecognized(doc)
       THEN /\ exc' = [type |-> "ValueError", msg |-> <<"Unrecognized JSON in ">> \o info_path]
            /\ pc' = "except"
            /\ UNCHANGED <<loaded_entries, last_playlist>>
       ELSE IF IsList(doc.formats_kind)
       THEN /\ loaded_entries' = Append(loaded_entries, [doc.info EXCEPT !.json_path = info_path])
            /\ UNCHANGED <<last_playlist, exc, pc>>
       ELSE IF NullAt(doc.info.entries)
       THEN /\ exc' = [type |-> "TypeError", msg |-> <<>>]
            /\ pc' = "except"
            /\ last_playlist' = [doc.info EXCEPT !.json_path = info_path]
            /\ UNCHANGED loaded_entries
       ELSE /\ last_playlist' = [doc.info EXCEPT !.json_path = info_path,
                                                 !.entries = Tagged(doc.info.entries, info_path)]
            /\ loaded_entries' = loaded_entries \o Tagged(doc.info.entries, info_path)
            /\ UNCHANGED <<exc, pc>>
    /\ UNCHANGED <<args, loaded, out, wstate, rc, hvars>>

LoadedAlwaysMerged == entries_to_playlist(loaded_entries)

\* lines 519-524: what _load_info returns
Loaded ==
    IF info_count = 1 /\ last_playlist # NoPlaylist
    THEN Ok(last_playlist)
    ELSE entries_to_playlist(loaded_entries)

ReturnPlaylist ==
    /\ pc = "load"
    /\ info_count = Len(args.json_files)
    /\ loaded' = Loaded.v
    /\ pc' = "rss"
    /\ UNCHANGED <<args, docs, info_count, loaded_entries, last_playlist, out, wstate, exc, rc, hvars>>

\* the characters the writer's encoding cannot represent: a lone surrogate
\* in any encoding, a non-ASCII character in ASCII
Encodable(v, encoding) ==
    /\ ~Has(v, "(U+D800)")
    /\ encoding = "ascii" => ~Has(v, "(U+00E9)")

\* the writes a stream in `encoding` accepts: up to the first text it cannot
\* encode, where write raises UnicodeEncodeError
Encoded(r, encoding) ==
    LET bad == {i \in 1..Len(r.toks) : ~Encodable(r.toks[i].v, encoding)} IN
    IF bad = {} THEN r
    ELSE LET first == CHOOSE i \in bad : \A j \in bad : i <= j
         IN  Then(Wr(SubSeq(r.toks, 1, first - 1)),
                  Cut(r.toks[first].ind, r.toks[first].el, "UnicodeEncodeError"))

\* lines 637-642
PlaylistToRss ==
    /\ pc = "rss"
    /\ LET r == Encoded(playlist_to_rss(loaded, WriterName, args.base, args.indent),
                        args.encoding)
       IN  /\ out' = out \o r.toks
           /\ exc' = [type |-> r.exc, msg |-> <<>>]
           /\ pc' = IF r.exc = "none" THEN "finally" ELSE "except"
    /\ UNCHANGED <<args, docs, info_count, loaded_entries, last_playlist, loaded, wstate, rc, hvars>>

\* lines 643-650: only UnicodeEncodeError is caught
Except ==
    /\ pc = "except"
    /\ IF exc.type = "UnicodeEncodeError"
       THEN exc' = NoExc /\ rc' = "1"
       ELSE UNCHANGED <<exc, rc>>
    /\ pc' = "finally"
    /\ UNCHANGED <<args, docs, info_count, loaded_entries, last_playlist, loaded, out, wstate, hvars>>

FinallyCloseOnSuccess ==
    /\ pc = "finally"
    /\ wstate' = IF Truthy(args.output) /\ exc = NoExc /\ rc # "1" THEN "closed" ELSE wstate
    /\ rc' = IF exc # NoExc THEN "exception" ELSE IF rc = "1" THEN "1" ELSE "0"
    /\ pc' = "left"
    /\ UNCHANGED <<args, docs, info_count, loaded_entries, last_playlist, loaded, out, exc, hvars>>

\* lines 651-655: the named file is closed; main returns, or the exception
\* that was not caught leaves it
Finally ==
    /\ pc = "finally"
    /\ wstate' = IF Truthy(args.output) THEN "closed" ELSE wstate
    /\ rc' = IF exc # NoExc THEN "exception" ELSE IF rc = "1" THEN "1" ELSE "0"
    /\ pc' = "left"
    /\ UNCHANGED <<args, docs, info_count, loaded_entries, last_playlist, loaded, out, exc, hvars>>

----------------------------------------------------------------------------
(* main on the command lines and documents of a bounded universe *)

\* an item record none of whose optional keys is present
BareEntry ==
    [id |-> <<"a">>, webpage_url |-> Missing, title |-> Missing, upload_date |-> Missing,
     filename |-> <<"a.mp3">>, filesize |-> MissingInt, ext |-> <<"mp3">>,
     acodec |-> Missing, vcodec |-> Missing, thumbnail |-> Missing,
     duration |-> NoneInt, age_limit |-> MissingInt, description |-> Missing,
     playlist_id |-> Missing, playlist_title |-> Missing,
     playlist_uploader |-> Missing, playlist_uploader_id |-> Missing,
     json_path |-> <<"f1.json">>]

\* a collection record with no channel metadata
BarePlaylist ==
    [id |-> Missing, title |-> Missing, uploader |-> Missing, uploader_id |-> Missing,
     description |-> Missing, webpage_url |-> Missing, upload_date |-> Missing,
     thumbnail |-> Missing, json_path |-> Missing, entries |-> <<>>]

\* input locations on a command line
MaxDocs == 2

\* the lists of distinct elements of S, in every order
RECURSIVE Arrangements(_)
Arrangements(S) ==
    {<<>>} \cup UNION {{<<x>> \o l : l \in Arrangements(S \ {x})} : x \in S}

\* the location of the i-th document; locations are named files
Location(i) == <<"f" \o ToString(i) \o ".json">>

\* an item as youtube-dl writes it; its title has a character outside ASCII,
\* and item "b" has every optional field but a page of its own
Item(id, upload_date, playlist_title) ==
    LET full == id = <<"b">> IN
    [BareEntry EXCEPT !.id = id, !.title = <<"caf", "(U+00E9)", " & co">>,
                      !.upload_date = upload_date, !.duration = 60,
                      !.filename = id \o <<".mp3">>,
                      !.filesize = IF full THEN 1024 ELSE MissingInt,
                      !.thumbnail = IF full THEN <<"b.jpg">> ELSE Missing,
                      !.age_limit = IF full THEN 18 ELSE MissingInt,
                      !.description = IF full THEN <<"D">> ELSE Missing,
                      !.playlist_title = playlist_title, !.json_path = Missing]

SingleItems ==
    {Item(<<"a">>, d, <<"P">>) : d \in {Missing, <<"20200101">>}}
    \cup {Item(<<"b">>, d, <<"Q">>) : d \in {Missing, <<"20211231">>}}

\* the items found in collection documents; a collection holds an item once
CollectionItems == {Item(<<"a">>, Missing, <<"P">>), Item(<<"b">>, <<"20211231">>, <<"P">>)}

\* a collection document; one that has a title has the other channel fields
\* an author supplies
Collection(title, upload_date, es) ==
    LET full == title # Missing IN
    [BarePlaylist EXCEPT !.title = title, !.upload_date = upload_date, !.entries = es,
                         !.description = IF full THEN <<"about">> ELSE Missing,
                         !.uploader = IF full THEN <<"U">> ELSE Missing,
                         !.webpage_url = IF full THEN <<"http:", "//h", "/", "c">> ELSE Missing,
                         !.thumbnail = IF full THEN <<"c.jpg">> ELSE Missing]

Collections ==
    {Collection(m[1], m[2], es) :
        m \in {<<Missing, Missing>>, <<<<"C">>, <<"20200615">> >>},
        es \in Arrangements(CollectionItems)}
    \cup {Collection(<<"(U+D800)">>, <<"20200615">>, <<>>)}

\* the collections one of whose entries is null, at any position
NullCollections ==
    UNION {{Collection(m[1], m[2],
                       SubSeq(es, 1, k) \o <<NullEntry>> \o SubSeq(es, k + 1, Len(es))) :
               m \in {<<Missing, Missing>>, <<<<"C">>, <<"20200615">> >>}, k \in 0..Len(es)} :
           es \in Arrangements(CollectionItems)}

Doc(io, entries_kind, formats_kind, info) ==
    [io |-> io, entries_kind |-> entries_kind, formats_kind |-> formats_kind, info |-> info]

\* what may be found at a location: nothing readable, no JSON, a JSON object
\* whose "entries" and "formats" are each absent, null, a list or something else
Docs ==
    {Doc("unreadable", "absent", "absent", BareEntry),
     Doc("malformed", "absent", "absent", BareEntry)}
    \cup {Doc("ok", k, k, BareEntry) : k \in {"absent", "null", "list", "other"}}
    \cup {Doc("ok", "null", "other", BareEntry)}
    \cup {Doc("ok", "absent", "list", it) : it \in SingleItems}
    \cup {Doc("ok", k, "list", Item(<<"a">>, <<"20200101">>, <<"P">>)) : k \in {"null", "other"}}
    \cup {Doc("ok", "list", "absent", c) : c \in Collections}
    \cup {Doc("ok", "list", "absent", c) : c \in NullCollections}
    \cup {Doc("ok", "list", k, Collection(<<"C">>, <<"20200615">>, <<>>)) : k \in {"null", "other"}}

\* the command lines: output to a named file or to standard output, whose
\* encoding a terminal may set
CommandLines ==
    {[output |-> a[1], encoding |-> a[2], indent |-> a[3], base |-> a[4],
      json_files |-> [i \in 1..n |-> Location(i)]] :
        a \in {<<None, "UTF-8", None, None>>,
               <<None, "ascii", <<" ">>, <<"http:", "//h", "/", "pod", "/">> >>,
               <<<<"feed.xml">>, "UTF-8", None, <<"http:", "//h", "/", "pod", "/">> >>,
               <<<<"feed.xml">>, "UTF-8", <<" ">>, None>>},
        n \in 1..MaxDocs}

Init ==
    /\ call = "idle"
    /\ arg = <<>>
    /\ res = Ok(None)
    /\ pc = "start"
    /\ args \in CommandLines
    /\ docs = <<>>
    /\ info_count = 0
    /\ loaded_entries = <<>>
    /\ last_playlist = NoPlaylist
    /\ loaded = NoPlaylist
    /\ out = <<>>
    /\ wstate = "unopened"
    /\ exc = NoExc
    /\ rc = "none"

LoadInfoSome == \E doc \in Docs : LoadInfo(doc)

Next ==
    \/ OpenOutput
    \/ OpenOutputFails
    \/ WriteDeclaration
    \/ LoadInfoSome
    \/ ReturnPlaylist
    \/ PlaylistToRss
    \/ Except
    \/ Finally

Spec == Init /\ [][Next]_vars

----------------------------------------------------------------------------
(* The pure functions applied to inputs drawn from bounded sets *)

KnownExts ==
    {<<"3g2">>, <<"3gp">>, <<"avi">>, <<"f4v">>, <<"m4v">>, <<"flv">>, <<"gif">>,
     <<"mk3d">>, <<"mks">>, <<"mkv">>, <<"mka">>, <<"mp3">>, <<"ogg">>, <<"opus">>,
     <<"ogv">>, <<"wav">>} \cup M4aGroup

MediaExts == KnownExts \cup {<<"mp4">>, <<"webm">>, <<"x", "&", "y">>, <<>>}

ACodecs == {Missing, None, <<"none">>, <<"opus">>, <<"mp4a.40.2">>}

VCodecs == {Missing, None, <<"none">>, <<"h264">>, <<"vp9">>}

MediaEntries == [ext : MediaExts, acodec : ACodecs, vcodec : VCodecs]

InitMedia ==
    /\ MainIdle
    /\ call = "pending"
    /\ arg \in MediaEntries
    /\ res = Ok(None)

CallGetEntryMediaType ==
    /\ call = "pending"
    /\ call' = "returned"
    /\ res' = get_entry_media_type(arg)
    /\ UNCHANGED <<arg, mvars>>

NextMedia == CallGetEntryMediaType

SpecMedia == InitMedia /\ [][NextMedia]_vars

----------------------------------------------------------------------------
(* entry_to_rss and playlist_to_rss applied to records drawn from bounded sets *)

\* item records with every combination of present and absent keys
PresenceEntries ==
    {[BareEntry EXCEPT !.id = f[1], !.webpage_url = f[2], !.title = f[3],
                       !.upload_date = f[4], !.filename = f[5], !.filesize = n[1],
                       !.ext = f[6], !.thumbnail = f[7], !.duration = n[2],
                       !.age_limit = n[3], !.description = f[8]] :
        f \in {Missing, <<"a">>}
              \X {Missing, <<>>, <<"http:", "//h", "/", "w">>}
              \X {Missing, <<>>, <<"T">>}
              \X {Missing, <<"20200101">>}
              \X {Missing, None, <<"a.mp3">>}
              \X {Missing, <<"mp3">>}
              \X {Missing, <<"t.jpg">>}
              \X {Missing, <<"D">>},
        n \in {MissingInt, 1024} \X {MissingInt, NoneInt, 60} \X {MissingInt, 0, 18}}

InitEntry ==
    /\ MainIdle
    /\ call = "pending"
    /\ arg \in [entry : PresenceEntries, name : {<<"<stdout>">>}, base : {None},
                indent : {None}]
    /\ res = Wr(<<>>)

CallEntryToRss ==
    /\ call = "pending"
    /\ call' = "returned"
    /\ res' = entry_to_rss(arg.entry, arg.name, arg.base, arg.indent)
    /\ UNCHANGED <<arg, mvars>>

NextEntry == CallEntryToRss

SpecEntry == InitEntry /\ [][NextEntry]_vars

\* the texts of at most n chunks over an alphabet
RECURSIVE Texts(_, _)
Texts(alphabet, n) ==
    IF n = 0 THEN {<<>>}
    ELSE LET shorter == Texts(alphabet, n - 1) IN
         shorter \cup {Append(t, c) : t \in shorter, c \in alphabet}

MaxLen == 3

TextChars == {"&", "<", ">", "\"", "'", "\n", "a", "amp;"}

\* an item and a collection whose every text field holds the text t
TextEntry(t, codecs) ==
    [BareEntry EXCEPT !.id = t, !.webpage_url = t, !.title = t, !.description = t,
                      !.ext = t, !.thumbnail = <<"http:">> \o t, !.filesize = 1024,
                      !.vcodec = codecs[1], !.acodec = codecs[2]]

TextPlaylist(t, codecs) ==
    [BarePlaylist EXCEPT !.title = t, !.description = t, !.uploader = t,
                         !.webpage_url = t, !.thumbnail = <<"http:">> \o t,
                         !.entries = <<TextEntry(t, codecs)>>,
                         !.json_path = <<"f1.json">>]

InitEscape ==
    /\ MainIdle
    /\ call = "pending"
    /\ \E t \in Texts(TextChars, MaxLen) :
       \E c \in {<<Missing, Missing>>, <<t, <<"opus">> >>} :
          arg = [entry |-> TextEntry(t, c), playlist |-> TextPlaylist(t, c), text |-> t,
                 name |-> <<"<stdout>">>, base |-> <<"http:", "//h", "/">> \o t,
                 indent |-> None]
    /\ res = Wr(<<>>)

CallPlaylistToRss ==
    /\ call = "pending"
    /\ call' = "returned playlist"
    /\ res' = playlist_to_rss(arg.playlist, arg.name, arg.base, arg.indent)
    /\ UNCHANGED <<arg, mvars>>

NextEscape == CallEntryToRss \/ CallPlaylistToRss

SpecEscape == InitEscape /\ [][NextEscape]_vars

----------------------------------------------------------------------------
(* entries_to_playlist applied to lists of entries drawn from bounded sets *)

MaxItems == 3

\* the playlist keys of an entry: an id that is absent or one of two, a title
\* that is empty or not, an uploader and an uploader id that are absent or not
MergeItems ==
    [playlist_id : {Missing, <<"x">>, <<"y">>},
     playlist_title : {<<>>, <<"T">>},
     playlist_uploader : {Missing, <<"U">>},
     playlist_uploader_id : {Missing, <<"u1">>}]

InitMerge ==
    /\ MainIdle
    /\ call = "building"
    /\ arg = <<>>
    /\ res = Ok(None)

\* the caller puts one more entry on the list
AddEntry ==
    /\ call = "building"
    /\ Len(arg) < MaxItems
    /\ \E e \in MergeItems : arg' = Append(arg, e)
    /\ UNCHANGED <<call, res, mvars>>

CallEntriesToPlaylist ==
    /\ call = "building"
    /\ call' = "returned"
    /\ res' = entries_to_playlist(arg)
    /\ UNCHANGED <<arg, mvars>>

NextMerge == AddEntry \/ CallEntriesToPlaylist

SpecMerge == InitMerge /\ [][NextMerge]_vars

----------------------------------------------------------------------------
(* playlist_to_rss applied to collections drawn from bounded sets *)

\* the lists of at most n elements of S
RECURSIVE ListsOf(_, _)
ListsOf(S, n) ==
    IF n = 0 THEN {<<>>}
    ELSE LET shorter == ListsOf(S, n - 1)
         IN  shorter \cup {Append(l, x) : l \in {m \in shorter : Len(m) = n - 1}, x \in S}

\* the elements of an 'entries' list: items with or without an upload date
\* and an age rating, and null
ChannelEntries ==
    {[BareEntry EXCEPT !.upload_date = d, !.age_limit = n] :
        d \in {Missing, <<"20200101">>, <<"20211231">>}, n \in {MissingInt, 0, 18}}
    \cup {NullEntry}

ChannelPlaylists ==
    {[BarePlaylist EXCEPT !.upload_date = d, !.entries = es, !.json_path = <<"f1.json">>] :
        d \in {Missing, <<"20200615">>}, es \in ListsOf(ChannelEntries, MaxItems)}

InitChannel ==
    /\ MainIdle
    /\ call = "pending"
    /\ arg \in [playlist : ChannelPlaylists, name : {<<"<stdout>">>}, base : {None},
                indent : {None, <<" ">>}]
    /\ res = Wr(<<>>)

NextChannel == CallPlaylistToRss

SpecChannel == InitChannel /\ [][NextChannel]_vars

----------------------------------------------------------------------------
(* Claims about get_entry_media_type, checked under SpecMedia *)

\* a chunked text as one string
RECURSIVE Join(_)
Join(s) == IF s = <<>> THEN "" ELSE Head(s) \o Join(Tail(s))

\* The media type of section 4.1 of the specification, as one string.
\* An absent codec is "".
RefCodec(c) == IF c \in {Missing, None, <<"none">>} THEN "" ELSE Join(c)

RefSubtype(x) ==
    CASE x = "3g2" -> "3gpp2"
      [] x = "3gp" -> "3gpp"
      [] x \in {"f4a", "f4b", "f4p", "m4a", "m4b", "m4p", "m4r", "f4v", "m4v"} -> "mp4"
      [] x \in {"mk3d", "mks", "mkv", "mka"} -> "x-matroska"
      [] x \in {"ogg", "ogv"} -> "ogg"
      [] OTHER -> x

RefMediaType(e) ==
    LET x  == Join(e.ext)
        a0 == RefCodec(e.acodec)
        v  == RefCodec(e.vcodec)
        a  == IF x = "opus" /\ a0 = "" THEN "opus" ELSE a0
        audioExt == x \in {"f4a", "f4b", "f4p", "m4a", "m4b", "m4p", "m4r", "mka"}
        family ==
            IF \/ a0 # "" /\ v = ""
               \/ audioExt /\ a0 = "" /\ v = ""
               \/ x = "ogg" /\ v = ""
            THEN "audio/" ELSE "video/"
        base ==
            CASE x = "avi" -> "video/vnd.avi"
              [] x = "flv" -> "video/x-flv"
              [] x = "gif" -> "image/gif"
              [] x = "mp3" -> "audio/mpeg"
              [] x = "wav" -> "audio/vnd.wave"
              [] x = "opus" -> "audio/ogg"
              [] OTHER -> family \o RefSubtype(x)
        param ==
            IF (a # "" \/ v # "") /\ x \notin {"flv", "gif", "mp3"}
            THEN "; codecs=" \o
                 (IF a # "" /\ v # "" THEN "\"" \o v \o ", " \o a \o "\"" ELSE a \o v)
            ELSE ""
    IN  base \o param

C8_H264WrittenAsAvc1 ==
    (/\ call = "returned"
     /\ arg.vcodec = <<"h264">>
     /\ arg.acodec = Missing
     /\ arg.ext \in {<<"mp4">>, <<"webm">>})
        => Join(res.v) = "video/" \o Join(arg.ext) \o "; codecs=avc1"

----------------------------------------------------------------------------
(* Claims about escaping, checked under SpecEscape *)

\* What an XML parser reads.  In element content a "<" starts markup and an
\* "&" must start one of the references below; in an attribute value a
\* literal line break is normalized to a space.
Malformed == <<"(malformed)">>

IsReference(c) == c \in {"amp;", "lt;", "gt;", "quot;", "apos;", "#10;"}

Dereference(c) ==
    CASE c = "amp;" -> "&"
      [] c = "lt;" -> "<"
      [] c = "gt;" -> ">"
      [] c = "quot;" -> "\""
      [] c = "apos;" -> "'"
      [] c = "#10;" -> "\n"

RECURSIVE XmlRead(_, _)
XmlRead(s, inAttr) ==
    IF s = <<>> THEN <<>>
    ELSE IF Head(s) = "<" THEN Malformed
    ELSE IF Head(s) = "&"
         THEN IF Len(s) >= 2 /\ IsReference(s[2])
              THEN LET rest == XmlRead(SubSeq(s, 3, Len(s)), inAttr) IN
                   IF rest = Malformed THEN Malformed ELSE <<Dereference(s[2])>> \o rest
              ELSE Malformed
    ELSE LET rest == XmlRead(Tail(s), inAttr) IN
         IF rest = Malformed THEN Malformed
         ELSE <<(IF inAttr /\ Head(s) = "\n" THEN " " ELSE Head(s))>> \o rest

XmlText(s) == XmlRead(s, FALSE)

XmlAttr(q) ==
    IF Len(q) >= 2 /\ q[1] \in {"\"", "'"} /\ q[Len(q)] = q[1]
       /\ ~Has(SubSeq(q, 2, Len(q) - 1), q[1])
    THEN XmlRead(SubSeq(q, 2, Len(q) - 1), TRUE)
    ELSE Malformed

\* the string each element and attribute of the output was written from
WrittenFrom(tok) ==
    CASE tok.el \in {"guid", "title", "description", "itunes:author", "link"} -> arg.text
      [] tok.el = "enclosure" /\ tok.at = "type" -> get_entry_media_type(arg.entry).v
      [] tok.el = "enclosure" /\ tok.at = "length" -> str(arg.entry.filesize)
      [] tok.el = "enclosure" /\ tok.at = "url" ->
            resolve_path(arg.entry.filename, arg.entry.json_path, arg.name, arg.base)
      [] tok.el \in {"url", "itunes:image"} -> arg.entry.thumbnail
      [] tok.el = "atom:link" -> arg.base
      [] tok.el = "generator" -> <<"ytdl2rss.py 0.1.0">>

\* an "&" of a written text that does not start a reference
RawAmp(v) == \E i \in 1..Len(v) : v[i] = "&" /\ (i = Len(v) \/ ~IsReference(v[i + 1]))

\* C9 (as amended): every text written as element content has each & < >
\* replaced by its escape (the quote characters are written as they are), and
\* every attribute value is escaped and enclosed in a quote character that
\* does not occur unescaped inside it, so that an XML parser reading the
\* output recovers the original string.
C9_EscapedTextAndAttributesRoundTrip ==
    call # "pending" =>
        /\ res.exc = "none"
        /\ \A i \in 1..Len(res.toks) :
              LET tok == res.toks[i] IN
              /\ tok.k = "text" =>
                    /\ ~Has(tok.v, "<") /\ ~Has(tok.v, ">") /\ ~RawAmp(tok.v)
                    /\ XmlText(tok.v) = WrittenFrom(tok)
              /\ tok.k = "attr" =>
                    /\ XmlAttr(tok.v) # Malformed
                    /\ XmlAttr(tok.v) = WrittenFrom(tok)

C9_Witness ==
    /\ call = "returned"
    /\ arg.text = <<"\"", "&", "'">>
    /\ arg.entry.vcodec # Missing
    /\ \E i \in 1..Len(res.toks) :
          /\ res.toks[i].el = "title"
          /\ res.toks[i].v = <<"\"", "&", "amp;", "'">>
    /\ \E i \in 1..Len(res.toks) :
          /\ res.toks[i].at = "href"
          /\ res.toks[i].v = <<"\"", "http:", "&", "quot;", "&", "amp;", "'", "\"">>

\* C9 (as claimed): every text written as element content has every
\* occurrence of the five characters & < > " ' replaced by its escape.
C9_FiveCharactersEscapedInText ==
    call # "pending" =>
        \A i \in 1..Len(res.toks) :
            res.toks[i].k = "text" =>
                /\ ~Has(res.toks[i].v, "<") /\ ~Has(res.toks[i].v, ">")
                /\ ~RawAmp(res.toks[i].v)
                /\ ~Has(res.toks[i].v, "\"") /\ ~Has(res.toks[i].v, "'")

----------------------------------------------------------------------------
(* Claims about the item block, checked under SpecEntry *)

\* the elements of a token sequence, in the order written
RECURSIVE Elements(_)
Elements(toks) ==
    IF toks = <<>> THEN <<>>
    ELSE (IF Head(toks).k \in {"open", "text", "raw", "start"} THEN <<Head(toks).el>>
          ELSE IF Head(toks).k = "close" THEN <<"/" \o Head(toks).el>>
          ELSE <<>>)
         \o Elements(Tail(toks))

When(present, el) == IF present THEN <<el>> ELSE <<>>

\* the item block of section 4.5 for an item record
ItemBlock(e) ==
    <<"item", "guid">>
    \o When(Get(e.title) # None, "title")
    \o When(Get(e.upload_date) # None, "pubDate")
    \o <<"enclosure">>
    \o When(Get(e.thumbnail) # None, "itunes:image")
    \o When(GetInt(e.duration) # NoneInt, "itunes:duration")
    \o When(GetInt(e.age_limit) # NoneInt, "itunes:explicit")
    \o When(Get(e.description) # None, "description")
    \o <<"/item">>

HasIdAndDuration(e) == Get(e.id) # None /\ e.duration # MissingInt

\* C10 (as amended): for every item record that has an identifier, a
\* duration key, a file path and an extension, entry_to_rss writes one
\* complete <item> block whose elements appear in the order guid, title,
\* pubDate, enclosure, itunes:image, itunes:duration, itunes:explicit,
\* description; guid and enclosure are always written and each other element
\* exactly when its field is present.
C10_ItemBlockInFixedOrder ==
    (/\ call = "returned"
     /\ HasIdAndDuration(arg.entry)
     /\ Get(arg.entry.filename) # None
     /\ Get(arg.entry.ext) # None)
        => /\ res.exc = "none"
           /\ Elements(res.toks) = ItemBlock(arg.entry)

C10_Witness ==
    /\ call = "returned"
    /\ arg.entry.age_limit = 0
    /\ arg.entry.title = <<>>
    /\ arg.entry.thumbnail = Missing
    /\ Elements(res.toks) =
          <<"item", "guid", "title", "enclosure", "itunes:duration", "itunes:explicit", "/item">>

\* C10 (as claimed): an identifier and a duration key suffice, every other
\* field (file path and extension among them) being optional.
C10_IdAndDurationSuffice ==
    (call = "returned" /\ HasIdAndDuration(arg.entry))
        => /\ res.exc = "none"
           /\ Elements(res.toks) = ItemBlock(arg.entry)

----------------------------------------------------------------------------
(* Claims about entries_to_playlist, checked under SpecMerge *)

PlaylistKeys == {"playlist_id", "playlist_title", "playlist_uploader", "playlist_uploader_id"}

\* the channel key a playlist key becomes with 'playlist_' stripped
Stripped(k) ==
    CASE k = "playlist_id" -> "id"
      [] k = "playlist_title" -> "title"
      [] k = "playlist_uploader" -> "uploader"
      [] k = "playlist_uploader_id" -> "uploader_id"

\* an item defines a key when it holds a non-empty value under it
Defines(e, k) == e[k] \notin {Missing, None, <<>>}

DefinesAny(e) == \E k \in PlaylistKeys : Defines(e, k)

SameKeysAndValues(e, f) ==
    \A k \in PlaylistKeys : (Defines(e, k) <=> Defines(f, k)) /\ (Defines(e, k) => e[k] = f[k])

AgreeOnCommonKeys(e, f) ==
    \A k \in PlaylistKeys : (Defines(e, k) /\ Defines(f, k)) => e[k] = f[k]

Defining(entries) == {i \in 1..Len(entries) : DefinesAny(entries[i])}

\* the channel carries, under each stripped key, the value the items give it
CarriesItemValues(channel, entries) ==
    \A k \in PlaylistKeys :
        /\ \A i \in Defining(entries) : Defines(entries[i], k) => channel[Stripped(k)] = entries[i][k]
        /\ (\A i \in Defining(entries) : ~Defines(entries[i], k)) => channel[Stripped(k)] = Missing

CarriesNone(channel) == \A k \in PlaylistKeys : channel[Stripped(k)] = Missing

SynthesizedFields(channel) == [k \in PlaylistKeys |-> channel[Stripped(k)]]

\* C2 (as amended): if all items that define (with a non-empty value) any of
\* the four playlist_* keys define the same keys with the same values, the
\* synthesized channel carries those values under the keys with 'playlist_'
\* stripped; if two such items differ, in a value or in which of the keys
\* they define, the channel carries none of the four fields.  Items that
\* define none of the four keys do not affect the result.
C2_SynthesizedFromIdenticalPlaylistKeys ==
    call = "returned" =>
        /\ res.exc = "none"
        /\ res.v.entries = arg
        /\ IF \A i, j \in Defining(arg) : SameKeysAndValues(arg[i], arg[j])
           THEN CarriesItemValues(res.v, arg)
           ELSE CarriesNone(res.v)
        /\ SynthesizedFields(res.v) =
              SynthesizedFields(entries_to_playlist(SelectSeq(arg, DefinesAny)).v)

C2_Witness ==
    /\ call = "returned"
    /\ Len(arg) = 3
    /\ arg[1].playlist_title = <<"T">> /\ arg[1].playlist_id = <<"x">>
    /\ ~DefinesAny(arg[2])
    /\ arg[3] = arg[1]
    /\ res.v.title = <<"T">> /\ res.v.id = <<"x">>

\* C2 (as claimed): agreement on the common values is enough: if no two
\* items disagree on a key both define, the channel carries the items'
\* values; if two items disagree on a shared key it carries none.
C2_SynthesizedWhenCommonValuesAgree ==
    call = "returned" =>
        IF \A i, j \in Defining(arg) : AgreeOnCommonKeys(arg[i], arg[j])
        THEN CarriesItemValues(res.v, arg)
        ELSE CarriesNone(res.v)

----------------------------------------------------------------------------
(* One collection document is used as it is *)

\* the document found at the i-th location is a collection record
IsCollectionDoc(doc) ==
    doc.io = "ok" /\ doc.entries_kind = "list" /\ doc.formats_kind # "list"

IsSingleDoc(doc) ==
    doc.io = "ok" /\ doc.formats_kind = "list" /\ doc.entries_kind # "list"

ChannelFields(p) ==
    <<p.id, p.title, p.description, p.uploader, p.uploader_id, p.webpage_url, p.upload_date,
      p.thumbnail>>

\* the items as their documents have them, without the location tag
Untagged(es) == [i \in 1..Len(es) |-> [es[i] EXCEPT !.json_path = Missing]]

\* C1: when there is exactly one input location and the document there is a
\* collection record, the collection _load_info returns has every channel
\* field as the document has it (nothing taken from the items' playlist_*
\* keys) and has the document's entries in their order.
C1_SingleCollectionReturnedAsIs ==
    (loaded # NoPlaylist /\ Len(args.json_files) = 1 /\ IsCollectionDoc(docs[1]))
        => /\ ChannelFields(loaded) = ChannelFields(docs[1].info)
           /\ Untagged(loaded.entries) = docs[1].info.entries

\* a collection with no title of its own, whose two items name playlist "P",
\* has been returned
C1_Witness ==
    /\ pc = "rss"
    /\ Len(args.json_files) = 1
    /\ IsCollectionDoc(docs[1])
    /\ docs[1].info.title = Missing
    /\ Len(docs[1].info.entries) = 2
    /\ docs[1].info.entries[1] # docs[1].info.entries[2]
    /\ \A i \in 1..2 : docs[1].info.entries[i].playlist_title = <<"P">>
    /\ loaded.title = Missing

----------------------------------------------------------------------------
(* Every item of every document becomes one <item>, in order *)

RECURSIVE ItemsOf(_)
ItemsOf(ds) ==
    IF ds = <<>> THEN <<>>
    ELSE ItemsOf(SubSeq(ds, 1, Len(ds) - 1))
         \o (IF IsSingleDoc(ds[Len(ds)]) THEN <<ds[Len(ds)].info>> ELSE ds[Len(ds)].info.entries)

Opened(el) == SelectSeq(out, LAMBDA tok : tok.el = el /\ tok.k = "open")

Guids == SelectSeq(out, LAMBDA tok : tok.el = "guid")

\* C3: the entries _load_info returns are the items of all documents in the
\* order of the locations and of each document's entries, and when main is
\* left with every document loaded and every character encoded, the output
\* has one <channel> and one <item> for each entry, in that order.
C3_OneItemPerEntryInOrder ==
    /\ loaded # NoPlaylist => Untagged(loaded.entries) = ItemsOf(docs)
    /\ (pc = "left" /\ loaded # NoPlaylist /\ rc # "1")
        => /\ Len(Opened("channel")) = 1
           /\ Len(Opened("item")) = Len(loaded.entries)
           /\ Len(Guids) = Len(loaded.entries)
           /\ \A i \in 1..Len(Guids) : Guids[i].v = escape(loaded.entries[i].id)

----------------------------------------------------------------------------
(* Documents that are neither an item nor a collection *)

HasBoth(doc) == doc.entries_kind = "list" /\ doc.formats_kind = "list"

HasNeither(doc) == doc.entries_kind # "list" /\ doc.formats_kind # "list"

ClassificationError(i) ==
    [type |-> "ValueError", msg |-> <<"Unrecognized JSON in ">> \o args.json_files[i]]

IsClassificationError == \E i \in 1..Len(args.json_files) : exc = ClassificationError(i)

\* C4: a document read at any position that has both markers (a list under
\* 'entries' and a list under 'formats') or neither ends _load_info with the
\* classification error that names its location, and nothing is returned,
\* whatever was loaded before; a document with exactly one marker never
\* gives that error.
C4_BothOrNeitherIsClassificationError ==
    /\ \A i \in 1..Len(docs) :
          (docs[i].io = "ok" /\ (HasBoth(docs[i]) \/ HasNeither(docs[i])))
              => /\ i = Len(docs)
                 /\ exc = ClassificationError(i)
                 /\ loaded = NoPlaylist
                 /\ pc \in {"except", "finally", "left"}
    /\ IsClassificationError
          => /\ docs # <<>>
             /\ docs[Len(docs)].io = "ok"
             /\ HasBoth(docs[Len(docs)]) \/ HasNeither(docs[Len(docs)])

\* a valid document was loaded, then one with neither marker was refused
C4_Witness ==
    /\ pc = "left"
    /\ Len(docs) = 2
    /\ IsCollectionDoc(docs[1]) /\ docs[1].info.entries # <<>>
    /\ docs[2].io = "ok" /\ HasNeither(docs[2]) /\ docs[2].entries_kind = "other"
    /\ exc = ClassificationError(2)
    /\ rc = "exception"

----------------------------------------------------------------------------
(* What has been written when loading fails *)

\* C5: nothing has been written to the output destination until every
\* location has been loaded and the collection is built.
C5_NothingWrittenBeforeLoaded ==
    loaded = NoPlaylist => out = <<>>

----------------------------------------------------------------------------
(* The output destination when main is left *)

Acquired == wstate # "unopened"

\* C6 (as claimed): whenever main is left after the destination was
\* acquired, the destination has been closed, be it a named file or standard
\* output.
C6_DestinationFinalizedOnEveryExit ==
    (pc = "left" /\ Acquired) => wstate = "closed"

\* C6 (as amended): whenever main is left after the destination was acquired, a named
\* output file has been closed, whether main returned 0, returned 1 after an
\* encoding failure or was left by an exception; standard output has been
\* left open.
C6_NamedFileClosedOnEveryExit ==
    (pc = "left" /\ Acquired)
        => wstate = (IF Truthy(args.output) THEN "closed" ELSE "open")

\* the named file was closed after an encoding failure in the channel title
C6_Witness ==
    /\ pc = "left"
    /\ Truthy(args.output)
    /\ rc = "1"
    /\ Len(out) > 1
    /\ out[Len(out)].k = "cut"
    /\ wstate = "closed"

----------------------------------------------------------------------------
(* Claims about the channel of a collection, checked under SpecChannel *)

NoNulls(es) == \A i \in 1..Len(es) : es[i] # NullEntry

\* the writes before the first <item>
ChannelPart(toks) ==
    LET items == {i \in 1..Len(toks) : toks[i].el = "item" /\ toks[i].k = "open"} IN
    IF items = {} THEN toks
    ELSE SubSeq(toks, 1, (CHOOSE i \in items : \A j \in items : i <= j) - 1)

ChannelElement(toks, el) == SelectSeq(ChannelPart(toks), LAMBDA tok : tok.el = el)

\* the dates the items of a collection have
ItemDates(p) ==
    {p.entries[i].upload_date : i \in {j \in 1..Len(p.entries) : Get(p.entries[j].upload_date) # None}}

\* the latest of a non-empty set of YYYYMMDD dates
Latest(ds) == CHOOSE d \in ds : \A e \in ds : DateRank(e) <= DateRank(d)

\* the channel publish date of section 4.2: the collection's own date, else
\* the latest date of its items, else none
RefChannelDate(p) ==
    IF Get(p.upload_date) # None THEN <<ymd_to_rfc2822(p.upload_date).v>>
    ELSE IF ItemDates(p) # {} THEN <<ymd_to_rfc2822(Latest(ItemDates(p))).v>>
    ELSE <<>>

\* C11: for every collection without null entries, serialization completes
\* and the channel publish date is the collection's own upload_date when it
\* has one, and otherwise the latest upload_date of its items (none when no
\* item has one or there are no items).
C11_ChannelDateIsLatestOfItems ==
    (call = "returned playlist" /\ NoNulls(arg.playlist.entries))
        => /\ res.exc = "none"
           /\ [i \in 1..Len(ChannelElement(res.toks, "pubDate")) |->
                  ChannelElement(res.toks, "pubDate")[i].v]
              = RefChannelDate(arg.playlist)

Ratings(p) == [i \in 1..Len(p.entries) |-> GetInt(p.entries[i].age_limit)]

\* the channel explicit flag of section 4.4: written when there are items and
\* every one declares an age rating, 'yes' if some rating is above zero
RefChannelExplicit(p) ==
    IF p.entries # <<>> /\ \A i \in 1..Len(p.entries) : Ratings(p)[i] # NoneInt
    THEN <<IF \E i \in 1..Len(p.entries) : Ratings(p)[i] > 0 THEN <<"yes">> ELSE <<"clean">> >>
    ELSE <<>>

\* C12: for every collection without null entries, the channel-level
\* explicit flag is written exactly when there are items and every item
\* declares an age rating, with the value 'yes' if the highest rating is
\* above zero and 'clean' otherwise.
C12_ChannelExplicitWhenAllRated ==
    (call = "returned playlist" /\ NoNulls(arg.playlist.entries))
        => [i \in 1..Len(ChannelElement(res.toks, "itunes:explicit")) |->
               ChannelElement(res.toks, "itunes:explicit")[i].v]
           = RefChannelExplicit(arg.playlist)

----------------------------------------------------------------------------
(* The layout of the document main writes *)

\* n copies of the indent unit
RECURSIVE Repeat(_, _)
Repeat(unit, n) == IF n = 0 THEN <<>> ELSE unit \o Repeat(unit, n - 1)

\* the writes that start a line and those that end one, when lines are made:
\* an element is one write, or a start tag, its attributes and the end of
\* the tag; the XML declaration is a line by itself
StartsLine(tok) == tok.k \in {"open", "close", "text", "raw", "start", "cut"} \/ tok.el = "?xml"

EndsLine(tok) == tok.k \in {"open", "close", "text", "raw", "end"} \/ tok.el = "?xml"

\* how many elements are open around the i-th write
Depth(toks, i) ==
    Cardinality({j \in 1..(i - 1) : toks[j].k = "open"})
    - Cardinality({j \in 1..i : toks[j].k = "close"})

\* inside an <item> or an <image>
Inside(toks, i, el) ==
    \E j \in 1..(i - 1) :
        /\ toks[j].el = el /\ toks[j].k = "open"
        /\ \A m \in j..i : ~(toks[m].el = el /\ toks[m].k = "close")

\* the depth section 4.6 gives a line
RefDepth(toks, i) ==
    IF toks[i].el \in {"?xml", "rss"} THEN 0
    ELSE IF toks[i].el = "channel" THEN 1
    ELSE IF Inside(toks, i, "item") \/ Inside(toks, i, "image") THEN 3
    ELSE 2

\* C13: with no indent unit nothing written from the XML declaration to the
\* closing root tag has indentation or a line break (the one line break
\* comes after </rss>); with an indent unit every line starts with depth
\* times the unit (rss 0, channel 1, channel children and item 2, item and
\* image children 3, which is the number of open elements) and ends with a
\* line break, and nothing else is indented or broken.
C13_IndentByDepthOrSingleLine ==
    \A i \in 1..Len(out) :
        IF args.indent = None
        THEN /\ out[i].ind = <<>>
             /\ out[i].eol = (IF out[i].el = "rss" /\ out[i].k = "close" THEN <<"\n">> ELSE <<>>)
        ELSE /\ out[i].ind = (IF StartsLine(out[i]) THEN Repeat(args.indent, RefDepth(out, i))
                              ELSE <<>>)
             /\ out[i].eol = (IF EndsLine(out[i]) THEN <<"\n">> ELSE <<>>)
             /\ StartsLine(out[i]) => RefDepth(out, i) = Depth(out, i)

\* a whole document was written with an indent unit: a channel with an
\* image, and an item with all its elements
C13_Witness ==
    /\ pc = "left" /\ rc = "0"
    /\ args.indent = <<" ">>
    /\ \E i \in 1..Len(out) : out[i].el = "url" /\ out[i].ind = <<" ", " ", " ">>
    /\ \E i \in 1..Len(out) : out[i].el = "description" /\ out[i].ind = <<" ", " ", " ">>
    /\ \E i \in 1..Len(out) : out[i].el = "description" /\ out[i].ind = <<" ", " ">>
    /\ \E i \in 1..Len(out) : out[i].el = "enclosure" /\ out[i].k = "end" /\ out[i].eol = <<"\n">>
    /\ out[Len(out)].el = "rss" /\ out[Len(out)].ind = <<>>

----------------------------------------------------------------------------
(* Null entries of a collection document *)

HasNullEntry(doc) == IsCollectionDoc(doc) /\ ~NoNulls(doc.info.entries)

RECURSIVE NonNullItemsOf(_)
NonNullItemsOf(ds) ==
    IF ds = <<>> THEN <<>>
    ELSE NonNullItemsOf(SubSeq(ds, 1, Len(ds) - 1))
         \o (IF IsSingleDoc(ds[Len(ds)]) THEN <<ds[Len(ds)].info>>
             ELSE SelectSeq(ds[Len(ds)].info.entries, LAMBDA e : e # NullEntry))

\* C14: a null in the 'entries' of a collection document is skipped: the
\* document is loaded without an error, the entries gathered from the
\* documents are their non-null items in order, and when main has returned
\* 0 one <item> has been written for each of them.
C14_NullEntriesSkipped ==
    (docs # <<>> /\ \E i \in 1..Len(docs) : HasNullEntry(docs[i]))
        => /\ exc = NoExc
           /\ Untagged(loaded_entries) = NonNullItemsOf(docs)
           /\ (pc = "left" /\ rc = "0") => Len(Opened("item")) = Len(NonNullItemsOf(docs))

=============================================================================
